---- MODULE Spec2Model ----
(***************************************************************************)
(* Model of src/create_mesh.py: the render pipeline of                     *)
(* create_embroidery_mesh as a state machine over the canvas' draw log.    *)
(*                                                                         *)
(* Pixel coordinates of knots and thread lines are kept in HALF PIXELS     *)
(* (twice the pixel value): cell_size / 2 is fractional for an odd cell    *)
(* size.  Grid lines, dots and the skip rectangle are in whole pixels.     *)
(***************************************************************************)
EXTENDS Integers, Sequences, FiniteSets, TLC

\* ------------------------------------------------------------- bounds
MaxCoord == 2
MaxThreads == 2
MaxPaths == 2
MaxSize == 2
MaxSpacing == 3

\* ------------------------------------------------- program constants
padding == 20
DefaultGrid == 40
point_radius == 1

\* ------------------------------------------------------ Python values
\* A scalar loaded from YAML or passed as a parameter: an int, a
\* non-numeric string, or None.
PyI(n) == [t |-> "int", v |-> n]
PyStr == [t |-> "str", v |-> 0]
PyNone == [t |-> "none", v |-> 0]
IsInt(c) == c.t = "int"

\* Strings whose content matters (colours) are sequences of characters.
Black == <<"b", "l", "a", "c", "k">>
White == <<"w", "h", "i", "t", "e">>
Red == <<"r", "e", "d">>
Blue == <<"b", "l", "u", "e">>
EmptyStr == <<>>
SkipWord == <<"s", "k", "i", "p">>

LowerChar(ch) ==
  CASE ch = "S" -> "s"
    [] ch = "K" -> "k"
    [] ch = "I" -> "i"
    [] ch = "P" -> "p"
    [] ch = "R" -> "r"
    [] ch = "E" -> "e"
    [] ch = "D" -> "d"
    [] OTHER -> ch

PyLower(s) == [k \in 1..Len(s) |-> LowerChar(s[k])]

IsSpace(ch) == ch = " " \/ ch = "\t"

RECURSIVE LStrip(_)
LStrip(s) == IF s # <<>> /\ IsSpace(Head(s)) THEN LStrip(Tail(s)) ELSE s

RECURSIVE RStrip(_)
RStrip(s) ==
  IF s # <<>> /\ IsSpace(s[Len(s)]) THEN RStrip(SubSeq(s, 1, Len(s) - 1)) ELSE s

PyStrip(s) == RStrip(LStrip(s))

\* str(color).strip().lower() == "skip"
IsSkipMutNoStrip(color) == PyLower(color) = SkipWord
IsSkipColor(color) == PyLower(PyStrip(color)) = SkipWord

\* ------------------------------------------------------ configuration
\* A path mapping {start, end}; either key may be missing.
NoPoint == <<PyNone, PyNone>>
DefaultPoint == <<PyI(0), PyI(0)>>
Path(s, e) == [has_start |-> TRUE, start |-> s, has_end |-> TRUE, end |-> e]
PathNoStart(e) == [has_start |-> FALSE, start |-> NoPoint, has_end |-> TRUE, end |-> e]
PathNoEnd(s) == [has_start |-> TRUE, start |-> s, has_end |-> FALSE, end |-> NoPoint]
EmptyPath == [has_start |-> FALSE, start |-> NoPoint, has_end |-> FALSE, end |-> NoPoint]

\* path.get("start", [0, 0]) and path.get("end", [0, 0])
GetStart(p) == IF p.has_start THEN p.start ELSE DefaultPoint
GetEnd(p) == IF p.has_end THEN p.end ELSE DefaultPoint

\* A thread entry: the paths-list form (key "paths" present) or the legacy
\* form (the entry's own start/end, kept in own).
NewThread(hc, c, ps) ==
  [has_color |-> hc, color |-> c, has_paths |-> TRUE, paths |-> ps, own |-> EmptyPath]
OldThread(hc, c, p) ==
  [has_color |-> hc, color |-> c, has_paths |-> FALSE, paths |-> <<>>, own |-> p]

\* thread.get("color", "") and thread.get("color", "black")
GetColorOrEmpty(th) == IF th.has_color THEN th.color ELSE EmptyStr
GetColorOrBlack(th) == IF th.has_color THEN th.color ELSE Black

\* The path segments an entry carries, in order, whichever its form.
SegmentsOf(th) == IF th.has_paths THEN th.paths ELSE <<th.own>>

Max2(a, b) == IF a >= b THEN a ELSE b
Min2(a, b) == IF a <= b THEN a ELSE b

\* ------------------------------------------------ calculate_grid_size
\* max(max_x, start[0], end[0]); max(max_y, start[1], end[1]).  Comparing
\* an int with a str or None raises TypeError.
SegExtentMutNoEnd(acc, p) ==
  IF acc.raised THEN acc
  ELSE LET s == GetStart(p)
           e == GetEnd(p)
       IN IF IsInt(s[1]) /\ IsInt(e[1]) /\ IsInt(s[2]) /\ IsInt(e[2])
          THEN [raised |-> FALSE,
                mx |-> Max2(acc.mx, s[1].v),
                my |-> Max2(acc.my, s[2].v)]
          ELSE [raised |-> TRUE, mx |-> 0, my |-> 0]

SegExtent(acc, p) ==
  IF acc.raised THEN acc
  ELSE LET s == GetStart(p)
           e == GetEnd(p)
       IN IF IsInt(s[1]) /\ IsInt(e[1]) /\ IsInt(s[2]) /\ IsInt(e[2])
          THEN [raised |-> FALSE,
                mx |-> Max2(acc.mx, Max2(s[1].v, e[1].v)),
                my |-> Max2(acc.my, Max2(s[2].v, e[2].v))]
          ELSE [raised |-> TRUE, mx |-> 0, my |-> 0]

RECURSIVE PathsExtent(_, _)
PathsExtent(acc, ps) ==
  IF ps = <<>> THEN acc ELSE PathsExtent(SegExtent(acc, Head(ps)), Tail(ps))

RECURSIVE ThreadsExtent(_, _)
ThreadsExtent(acc, ths) ==
  IF ths = <<>> THEN acc
  ELSE LET th == Head(ths)
           nxt == IF th.has_paths THEN PathsExtent(acc, th.paths)
                  ELSE SegExtent(acc, th.own)
       IN ThreadsExtent(nxt, Tail(ths))

calculate_grid_size_MutNoPlusOne(ths) ==
  IF ths = <<>> THEN [raised |-> FALSE, w |-> DefaultGrid, h |-> DefaultGrid]
  ELSE LET r == ThreadsExtent([raised |-> FALSE, mx |-> 0, my |-> 0], ths)
       IN IF r.raised THEN [raised |-> TRUE, w |-> 0, h |-> 0]
          ELSE [raised |-> FALSE, w |-> Max2(r.mx, 1), h |-> Max2(r.my, 1)]

calculate_grid_size(ths) ==
  IF ths = <<>> THEN [raised |-> FALSE, w |-> DefaultGrid, h |-> DefaultGrid]
  ELSE LET r == ThreadsExtent([raised |-> FALSE, mx |-> 0, my |-> 0], ths)
       IN IF r.raised THEN [raised |-> TRUE, w |-> 0, h |-> 0]
          ELSE [raised |-> FALSE, w |-> Max2(r.mx + 1, 1), h |-> Max2(r.my + 1, 1)]

\* Lines 96-109: the grid size from the explicit size or from the threads.
GridSizeMutIgnoreSize(sz, ths) ==
  IF ths # <<>> THEN calculate_grid_size(ths)
  ELSE [raised |-> FALSE, w |-> DefaultGrid, h |-> DefaultGrid]

GridSize(sz, ths) ==
  IF sz.t = "none"
  THEN IF ths # <<>> THEN calculate_grid_size(ths)
       ELSE [raised |-> FALSE, w |-> DefaultGrid, h |-> DefaultGrid]
  ELSE [raised |-> FALSE, w |-> sz.v, h |-> sz.v]

\* Lines 111-121: image_width, image_height and the canvas with its padding.
ImageDim(cells, cell) == cells * cell + 1
CanvasDim(cells, cell) == ImageDim(cells, cell) + 2 * padding

\* ------------------------------------------------------------ draw log
\* One record per call of a drawing primitive, in call order.
Op(kind, x1, y1, x2, y2, color) ==
  [kind |-> kind, x1 |-> x1, y1 |-> y1, x2 |-> x2, y2 |-> y2, color |-> color]

\* len(range(start, stop, step)) for step >= 1
RangeLen(start, stop, step) ==
  IF start >= stop THEN 0 ELSE ((stop - start - 1) \div step) + 1

\* Lines 124-157: vertical lines, horizontal lines, intersection dots.
VerticalLines(w, h, cell) ==
  [k \in 1..(w + 1) |->
     Op("gridline", padding + (k - 1) * cell, padding,
        padding + (k - 1) * cell, padding + ImageDim(h, cell) - 1, Black)]

HorizontalLines(w, h, cell) ==
  [k \in 1..(h + 1) |->
     Op("gridline", padding, padding + (k - 1) * cell,
        padding + ImageDim(w, cell) - 1, padding + (k - 1) * cell, Black)]

IntersectionDots(w, h, cell) ==
  [k \in 1..((w + 1) * (h + 1)) |->
     LET i == (k - 1) \div (h + 1)
         j == (k - 1) % (h + 1)
         x == padding + i * cell
         y == padding + j * cell
     IN Op("dot", x - point_radius, y - point_radius,
           x + point_radius, y + point_radius, Black)]

GridOps(w, h, cell) ==
  VerticalLines(w, h, cell) \o HorizontalLines(w, h, cell) \o IntersectionDots(w, h, cell)

\* Lines 163-188: the French knots.
\* int(french_knot_spacing), 1 when that raises or is below 1
KnotSpacing(ks) == IF IsInt(ks) /\ ks.v >= 1 THEN ks.v ELSE 1

KnotStepMutOffByOne(spacing) == Max2(1, spacing * 2 - 1)
KnotStep(spacing) == Max2(1, spacing * 2 - 2)

KnotStart(spacing) == Max2(0, spacing - 1)

\* max(1, int(cell_size * 0.48)), in pixels
KnotRadius(cell) == Max2(1, (cell * 48) \div 100)

\* Half pixels: 2 * (padding + i * cell_size + cell_size / 2)
CellCentre2MutCorner(i, cell) == 2 * padding + 2 * i * cell
CellCentre2(i, cell) == 2 * padding + 2 * i * cell + cell

KnotOps(w, h, cell, kc, ks) ==
  IF kc = EmptyStr THEN <<>>
  ELSE LET spacing == KnotSpacing(ks)
           step == KnotStep(spacing)
           start == KnotStart(spacing)
           ni == RangeLen(start, w, step)
           nj == RangeLen(start, h, step)
           r2 == 2 * KnotRadius(cell)
       IN [k \in 1..(ni * nj) |->
             LET i == start + ((k - 1) \div nj) * step
                 j == start + ((k - 1) % nj) * step
                 cx == CellCentre2(i, cell)
                 cy == CellCentre2(j, cell)
             IN Op("knot", cx - r2, cy - r2, cx + r2, cy + r2, kc)]

\* ------------------------------------------- lines 190-235: skip scan
NoBox == [found |-> FALSE, minx |-> 0, maxx |-> 0, miny |-> 0, maxy |-> 0]

\* One path of a skip group: int() of the four coordinates, the path left
\* out when any of them raises.
SkipSeg(box, p) ==
  LET s == GetStart(p)
      e == GetEnd(p)
  IN IF ~(IsInt(s[1]) /\ IsInt(s[2]) /\ IsInt(e[1]) /\ IsInt(e[2])) THEN box
     ELSE IF ~box.found
          THEN [found |-> TRUE,
                minx |-> Min2(s[1].v, e[1].v), maxx |-> Max2(s[1].v, e[1].v),
                miny |-> Min2(s[2].v, e[2].v), maxy |-> Max2(s[2].v, e[2].v)]
          ELSE [found |-> TRUE,
                minx |-> Min2(box.minx, Min2(s[1].v, e[1].v)),
                maxx |-> Max2(box.maxx, Max2(s[1].v, e[1].v)),
                miny |-> Min2(box.miny, Min2(s[2].v, e[2].v)),
                maxy |-> Max2(box.maxy, Max2(s[2].v, e[2].v))]

RECURSIVE SkipPaths(_, _)
SkipPaths(box, ps) ==
  IF ps = <<>> THEN box ELSE SkipPaths(SkipSeg(box, Head(ps)), Tail(ps))

RECURSIVE SkipScan(_, _)
SkipScan(box, ths) ==
  IF ths = <<>> THEN box
  ELSE LET th == Head(ths)
           nxt == IF ~IsSkipColor(GetColorOrEmpty(th)) THEN box
                  ELSE IF th.has_paths THEN SkipPaths(box, th.paths)
                  ELSE SkipSeg(box, th.own)
       IN SkipScan(nxt, Tail(ths))

\* ------------------------------------------ lines 239-256: skip erase
NoRect == [set |-> FALSE, l |-> 0, t |-> 0, r |-> 0, b |-> 0]

\* The clamped rectangle, and whether the guard left <= right and
\* top <= bottom lets it be erased.
SkipRectMutCentres(box, cell, iw, ih) ==
  [set |-> TRUE,
   l |-> Max2(0, padding + box.minx * cell),
   t |-> Max2(0, padding + box.miny * cell),
   r |-> Min2(iw - 1, padding + box.maxx * cell),
   b |-> Min2(ih - 1, padding + box.maxy * cell)]

SkipRect(box, cell, iw, ih) ==
  [set |-> TRUE,
   l |-> Max2(0, padding + box.minx * cell),
   t |-> Max2(0, padding + box.miny * cell),
   r |-> Min2(iw - 1, padding + (box.maxx + 1) * cell),
   b |-> Min2(ih - 1, padding + (box.maxy + 1) * cell)]

EraseGuard(rc) == rc.l <= rc.r /\ rc.t <= rc.b

\* skip_bbox after the erase step
SkipBBox(box, cell, iw, ih) ==
  IF box.found /\ EraseGuard(SkipRect(box, cell, iw, ih))
  THEN SkipRect(box, cell, iw, ih) ELSE NoRect

EraseOps(rc) ==
  IF rc.set THEN <<Op("erase", rc.l, rc.t, rc.r, rc.b, White)>> ELSE <<>>

\* ---------------------------------------- lines 259-304: thread lines
\* The four centre coordinates of a segment; the arithmetic raises
\* TypeError on a str or None coordinate.
SegArithOk(p) ==
  LET s == GetStart(p)
      e == GetEnd(p)
  IN IsInt(s[1]) /\ IsInt(s[2]) /\ IsInt(e[1]) /\ IsInt(e[2])

SegLine(p, cell, color) ==
  Op("thread", CellCentre2(GetStart(p)[1].v, cell), CellCentre2(GetStart(p)[2].v, cell),
     CellCentre2(GetEnd(p)[1].v, cell), CellCentre2(GetEnd(p)[2].v, cell), color)

\* New format: the skip test comes before the arithmetic.
RECURSIVE DrawPaths(_, _, _, _)
DrawPaths(acc, ps, cell, color) ==
  IF ps = <<>> \/ acc.raised THEN acc
  ELSE LET p == Head(ps)
           nxt == IF IsSkipColor(color) THEN acc
                  ELSE IF ~SegArithOk(p) THEN [raised |-> TRUE, ops |-> acc.ops]
                  ELSE [raised |-> FALSE, ops |-> Append(acc.ops, SegLine(p, cell, color))]
       IN DrawPaths(nxt, Tail(ps), cell, color)

\* Old format: the arithmetic comes before the skip test.
DrawOwn(p, cell, color) ==
  IF ~SegArithOk(p) THEN [raised |-> TRUE, ops |-> <<>>]
  ELSE IF IsSkipColor(color) THEN [raised |-> FALSE, ops |-> <<>>]
  ELSE [raised |-> FALSE, ops |-> <<SegLine(p, cell, color)>>]

\* One iteration of the loop over threads.
DrawThread(th, cell) ==
  IF th.has_paths
  THEN DrawPaths([raised |-> FALSE, ops |-> <<>>], th.paths, cell, GetColorOrBlack(th))
  ELSE DrawOwn(th.own, cell, GetColorOrBlack(th))

\* Lines 307-314: the debug outline.
OutlineOps(rc, dbg) ==
  IF rc.set /\ dbg THEN <<Op("outline", rc.l, rc.t, rc.r, rc.b, Red)>> ELSE <<>>


\* ------------------------------------------------------------- inputs
SeqsUpTo(S, n) == UNION {[1..k -> S] : k \in 0..n}

Pt(x, y) == <<PyI(x), PyI(y)>>
Points == {Pt(x, y) : x \in 0..MaxCoord, y \in 0..MaxCoord}
CellSizes == {1, 10, 20}
Sizes == {PyNone} \cup {PyI(n) : n \in 1..MaxSize}

Config(ths, sz, cell, dbg, kc, ks) ==
  [threads |-> ths, size |-> sz, cell_size |-> cell, debug_overlay |-> dbg,
   french_knots_color |-> kc, french_knot_spacing |-> ks]

\* One group of one segment, every pair of end points, either key missing.
RichPaths ==
  {Path(s, e) : s \in Points, e \in Points}
    \cup {PathNoStart(e) : e \in Points}
    \cup {PathNoEnd(s) : s \in Points}
    \cup {EmptyPath}

OneSegmentThreads ==
  {<<NewThread(TRUE, c, <<p>>)>> : c \in {Red, SkipWord}, p \in RichPaths}
    \cup {<<OldThread(TRUE, c, p)>> : c \in {Red, SkipWord}, p \in RichPaths}

OneSegmentConfigs ==
  {Config(ths, sz, cell, FALSE, EmptyStr, PyI(1)) :
     ths \in OneSegmentThreads, sz \in Sizes, cell \in {1, 20}}

\* Lists of groups of both forms, drawn and skipped, over two segments; a
\* paths list alternates the two, starting with either.
SegA == Path(Pt(0, 1), Pt(1, 0))
SegB == Path(Pt(1, 1), Pt(MaxCoord, MaxCoord))
SmallPaths == {SegA, SegB}

PathLists ==
  {[k \in 1..n |-> IF k % 2 = 1 THEN SegA ELSE SegB] : n \in 0..MaxPaths}
    \cup {[k \in 1..n |-> IF k % 2 = 1 THEN SegB ELSE SegA] : n \in 1..MaxPaths}

ListEntries ==
  {OldThread(TRUE, c, p) : c \in {Red, SkipWord}, p \in SmallPaths}
    \cup {NewThread(TRUE, c, ps) : c \in {Red, SkipWord}, ps \in PathLists}

ListConfigs ==
  {Config(ths, sz, 10, TRUE, EmptyStr, PyI(1)) :
     ths \in SeqsUpTo(ListEntries, MaxThreads), sz \in {PyNone, PyI(1)}}

\* The colour key: other colours, spellings of the skip marker, none.
ColourValues ==
  {Red, Blue, SkipWord, <<"S", "K", "I", "P">>, <<" ", "S", "k", "i", "p", " ">>,
   <<"\t", "s", "k", "i", "P">>, <<"s", "k", "i", "p", "s">>, <<"s", " ", "k", "i", "p">>,
   EmptyStr}

ColourEntries ==
  {OldThread(hc, c, p) : hc \in BOOLEAN, c \in ColourValues, p \in SmallPaths}
    \cup {NewThread(hc, c, <<p>>) : hc \in BOOLEAN, c \in ColourValues, p \in SmallPaths}

ColourConfigs ==
  {Config(<<e, OldThread(TRUE, Blue, Path(Pt(0, 0), Pt(1, 0)))>>, sz, 20, TRUE,
          EmptyStr, PyI(1)) :
     e \in ColourEntries, sz \in {PyNone, PyI(MaxSize)}}

\* French knots: every spacing, valid or not, over grids of every size.
SpacingValues == {PyI(s) : s \in (-1)..MaxSpacing} \cup {PyStr, PyNone}

KnotThreads ==
  {<<>>, <<NewThread(TRUE, Red, <<Path(Pt(0, 1), Pt(1, 0))>>)>>,
   <<OldThread(TRUE, SkipWord, Path(Pt(0, 0), Pt(1, MaxCoord)))>>}

KnotConfigs ==
  {Config(ths, sz, cell, FALSE, kc, ks) :
     ths \in KnotThreads,
     sz \in {PyNone} \cup {PyI(n) : n \in 1..(2 * MaxSpacing + 1)},
     cell \in {1, 10}, kc \in {EmptyStr, Blue}, ks \in SpacingValues}

\* Skip groups with a coordinate that int() rejects.
BadPaths ==
  {Path(<<PyStr, PyI(0)>>, Pt(1, 1)), Path(Pt(0, 0), <<PyI(1), PyNone>>)}

BadThreads ==
  UNION {
    {<<OldThread(TRUE, SkipWord, b)>>,
     <<NewThread(TRUE, SkipWord, <<b>>)>>,
     <<NewThread(TRUE, SkipWord, <<b, g>>)>>,
     <<NewThread(TRUE, SkipWord, <<g, b>>)>>,
     <<OldThread(TRUE, SkipWord, g), OldThread(TRUE, SkipWord, b)>>,
     <<OldThread(TRUE, SkipWord, b), NewThread(TRUE, SkipWord, <<g>>)>>,
     <<NewThread(TRUE, Red, <<g>>), NewThread(TRUE, SkipWord, <<b>>)>>,
     <<OldThread(TRUE, Red, g), OldThread(TRUE, SkipWord, b)>>}
    : b \in BadPaths, g \in SmallPaths}

BadConfigs ==
  {Config(ths, sz, 10, dbg, EmptyStr, PyI(1)) :
     ths \in BadThreads, sz \in Sizes, dbg \in BOOLEAN}

\* The worked examples of the specification: one skip segment (2,2)-(4,4),
\* one skip segment (0,0)-(1,1).
ExampleConfigs ==
  {Config(<<NewThread(TRUE, SkipWord, <<p>>)>>, sz, cell, dbg, kc, PyI(1)) :
     p \in {Path(Pt(2, 2), Pt(4, 4)), Path(Pt(0, 0), Pt(1, 1))},
     sz \in {PyNone, PyI(3)}, cell \in CellSizes, dbg \in BOOLEAN, kc \in {EmptyStr, Blue}}

\* A skip group beyond the grid an explicit size gives.
FarPath == Path(Pt(MaxSize + 2, MaxSize + 2), Pt(MaxSize + 3, MaxSize + 3))

FarThreads ==
  {<<OldThread(TRUE, SkipWord, FarPath)>>,
   <<NewThread(TRUE, SkipWord, <<FarPath>>)>>,
   <<NewThread(TRUE, Red, <<Path(Pt(0, 0), Pt(MaxSize + 3, 1))>>),
     NewThread(TRUE, SkipWord, <<FarPath>>)>>}

FarConfigs ==
  {Config(ths, sz, cell, dbg, kc, PyI(1)) :
     ths \in FarThreads, sz \in Sizes, cell \in {10, 20}, dbg \in BOOLEAN,
     kc \in {EmptyStr, Blue}}

Configs ==
  OneSegmentConfigs \cup ListConfigs \cup ColourConfigs \cup KnotConfigs
    \cup BadConfigs \cup ExampleConfigs \cup FarConfigs

\* -------------------------------------------------------------- state
VARIABLES
  threads, size, cell_size, debug_overlay, french_knots_color, french_knot_spacing,
  pc, width, height, img_width, img_height, ops, skip_box, skip_bbox, t_idx

params ==
  <<threads, size, cell_size, debug_overlay, french_knots_color, french_knot_spacing>>

vars ==
  <<threads, size, cell_size, debug_overlay, french_knots_color, french_knot_spacing,
    pc, width, height, img_width, img_height, ops, skip_box, skip_bbox, t_idx>>

Init ==
  /\ \E cfg \in Configs :
       /\ threads = cfg.threads
       /\ size = cfg.size
       /\ cell_size = cfg.cell_size
       /\ debug_overlay = cfg.debug_overlay
       /\ french_knots_color = cfg.french_knots_color
       /\ french_knot_spacing = cfg.french_knot_spacing
  /\ pc = "size"
  /\ width = 0
  /\ height = 0
  /\ img_width = 0
  /\ img_height = 0
  /\ ops = <<>>
  /\ skip_box = NoBox
  /\ skip_bbox = NoRect
  /\ t_idx = 1

\* Lines 96-109.  A TypeError of calculate_grid_size ends the render.
ComputeGridSize ==
  /\ pc = "size"
  /\ LET gs == GridSize(size, threads)
     IN IF gs.raised
        THEN /\ pc' = "raised"
             /\ UNCHANGED <<width, height>>
        ELSE /\ pc' = "image"
             /\ width' = gs.w
             /\ height' = gs.h
  /\ UNCHANGED <<params, img_width, img_height, ops, skip_box, skip_bbox, t_idx>>

\* Lines 111-122.
CreateImage ==
  /\ pc = "image"
  /\ img_width' = CanvasDim(width, cell_size)
  /\ img_height' = CanvasDim(height, cell_size)
  /\ pc' = "grid"
  /\ UNCHANGED <<params, width, height, ops, skip_box, skip_bbox, t_idx>>

\* Lines 124-157.
DrawGrid ==
  /\ pc = "grid"
  /\ ops' = ops \o GridOps(width, height, cell_size)
  /\ pc' = "knots"
  /\ UNCHANGED <<params, width, height, img_width, img_height, skip_box, skip_bbox, t_idx>>

\* Lines 159-188.
DrawKnots ==
  /\ pc = "knots"
  /\ ops' = ops \o KnotOps(width, height, cell_size, french_knots_color, french_knot_spacing)
  /\ pc' = "scan"
  /\ UNCHANGED <<params, width, height, img_width, img_height, skip_box, skip_bbox, t_idx>>

\* Lines 190-235.
ScanSkip ==
  /\ pc = "scan"
  /\ skip_box' = SkipScan(NoBox, threads)
  /\ pc' = "erase"
  /\ UNCHANGED <<params, width, height, img_width, img_height, ops, skip_bbox, t_idx>>

\* Lines 239-256.
EraseSkipMutKnotsAfter ==
  /\ pc = "erase"
  /\ skip_bbox' = SkipBBox(skip_box, cell_size, img_width, img_height)
  /\ ops' = ops \o EraseOps(skip_bbox')
              \o KnotOps(width, height, cell_size, french_knots_color, french_knot_spacing)
  /\ pc' = "threads"
  /\ UNCHANGED <<params, width, height, img_width, img_height, skip_box, t_idx>>

EraseSkip ==
  /\ pc = "erase"
  /\ skip_bbox' = SkipBBox(skip_box, cell_size, img_width, img_height)
  /\ ops' = ops \o EraseOps(skip_bbox')
  /\ pc' = "threads"
  /\ UNCHANGED <<params, width, height, img_width, img_height, skip_box, t_idx>>

\* Lines 259-304: one iteration of the loop over threads.
DrawOneThread ==
  /\ pc = "threads"
  /\ t_idx <= Len(threads)
  /\ LET d == DrawThread(threads[t_idx], cell_size)
     IN /\ ops' = ops \o d.ops
        /\ IF d.raised
           THEN /\ pc' = "raised"
                /\ UNCHANGED t_idx
           ELSE /\ pc' = "threads"
                /\ t_idx' = t_idx + 1
  /\ UNCHANGED <<params, width, height, img_width, img_height, skip_box, skip_bbox>>

\* Lines 306-314.
DrawOutline ==
  /\ pc = "threads"
  /\ t_idx > Len(threads)
  /\ ops' = ops \o OutlineOps(skip_bbox, debug_overlay)
  /\ pc' = "save"
  /\ UNCHANGED <<params, width, height, img_width, img_height, skip_box, skip_bbox, t_idx>>

\* Lines 318-323.
Save ==
  /\ pc = "save"
  /\ pc' = "done"
  /\ UNCHANGED <<params, width, height, img_width, img_height, ops, skip_box, skip_bbox,
                 t_idx>>

Next ==
  \/ ComputeGridSize
  \/ CreateImage
  \/ DrawGrid
  \/ DrawKnots
  \/ ScanSkip
  \/ EraseSkip
  \/ DrawOneThread
  \/ DrawOutline
  \/ Save

Spec == Init /\ [][Next]_vars

Terminal == pc \in {"done", "raised"}

TypeOK ==
  /\ pc \in {"size", "image", "grid", "knots", "scan", "erase", "threads", "save",
             "done", "raised"}
  /\ t_idx \in 1..(Len(threads) + 1)
  /\ \A k \in 1..Len(ops) :
       ops[k].kind \in {"gridline", "dot", "knot", "erase", "thread", "outline"}

\* ------------------------------------------------ the render as a whole
\* create_embroidery_mesh from its arguments to what it leaves behind: the
\* same steps as the actions above, composed.
RECURSIVE DrawThreads(_, _, _)
DrawThreads(acc, ths, cell) ==
  IF ths = <<>> \/ acc.raised THEN acc
  ELSE LET d == DrawThread(Head(ths), cell)
       IN DrawThreads([raised |-> d.raised, ops |-> acc.ops \o d.ops], Tail(ths), cell)

RenderOutcome(ths, sz, cell, dbg, kc, ks) ==
  LET gs == GridSize(sz, ths)
  IN IF gs.raised
     THEN [raised |-> TRUE, width |-> 0, height |-> 0, img_width |-> 0,
           img_height |-> 0, ops |-> <<>>, skip_bbox |-> NoRect]
     ELSE LET iw == CanvasDim(gs.w, cell)
              ih == CanvasDim(gs.h, cell)
              rc == SkipBBox(SkipScan(NoBox, ths), cell, iw, ih)
              pre == GridOps(gs.w, gs.h, cell) \o KnotOps(gs.w, gs.h, cell, kc, ks)
                       \o EraseOps(rc)
              dt == DrawThreads([raised |-> FALSE, ops |-> pre], ths, cell)
          IN [raised |-> dt.raised, width |-> gs.w, height |-> gs.h,
              img_width |-> iw, img_height |-> ih,
              ops |-> IF dt.raised THEN dt.ops ELSE dt.ops \o OutlineOps(rc, dbg),
              skip_bbox |-> rc]

Outcome ==
  [raised |-> pc = "raised", width |-> width, height |-> height,
   img_width |-> img_width, img_height |-> img_height, ops |-> ops,
   skip_bbox |-> skip_bbox]

\* The step-by-step render and the composed one agree.
StepsAgreeWithRender ==
  Terminal =>
    Outcome = RenderOutcome(threads, size, cell_size, debug_overlay,
                            french_knots_color, french_knot_spacing)

\* ------------------------------------------------- vocabulary of claims
Range(f) == {f[k] : k \in 1..Len(f)}
SetMax(S) == CHOOSE m \in S : \A x \in S : x <= m
SetMin(S) == CHOOSE m \in S : \A x \in S : m <= x
OpsOfKind(kind) == SelectSeq(ops, LAMBDA o : o.kind = kind)

\* Every path segment of every thread group, whatever its form or colour.
AllSegments == UNION {Range(SegmentsOf(th)) : th \in Range(threads)}
IntSegment(p) ==
  /\ GetStart(p)[1].t = "int" /\ GetStart(p)[2].t = "int"
  /\ GetEnd(p)[1].t = "int" /\ GetEnd(p)[2].t = "int"
XsOf(P) == {GetStart(p)[1].v : p \in P} \cup {GetEnd(p)[1].v : p \in P}
YsOf(P) == {GetStart(p)[2].v : p \in P} \cup {GetEnd(p)[2].v : p \in P}

\* "skip" in any letter case between any amount of white space, spelled out
\* letter by letter.
SkipSpelled(c) ==
  \E a \in 0..Len(c) :
    /\ a + 4 <= Len(c)
    /\ \A k \in 1..a : c[k] \in {" ", "\t"}
    /\ \A k \in (a + 5)..Len(c) : c[k] \in {" ", "\t"}
    /\ c[a + 1] \in {"s", "S"}
    /\ c[a + 2] \in {"k", "K"}
    /\ c[a + 3] \in {"i", "I"}
    /\ c[a + 4] \in {"p", "P"}

SkipGroup(th) == th.has_color /\ SkipSpelled(th.color)
SkipSegments == UNION {Range(SegmentsOf(th)) : th \in {g \in Range(threads) : SkipGroup(g)}}
CoercibleSkipSegments == {p \in SkipSegments : IntSegment(p)}

AfterSize == pc \notin {"size", "raised"} \/ (pc = "raised" /\ img_width > 0)
AfterKnots == pc \in {"scan", "erase", "threads", "save", "done"} \/ (pc = "raised" /\ img_width > 0)
AfterErase == pc \in {"threads", "save", "done"} \/ (pc = "raised" /\ img_width > 0)

\* ---------------------------------------------------------------- C1
\* C1: with no explicit size the grid is (40, 40) for an empty thread list,
\* and otherwise (mx + 1, my + 1) for the largest x and the largest y over
\* the start and end of every path segment of every group, legacy entries
\* and skip groups included, and at least 1 on each axis.
C1_AutoGridSize ==
  (size.t = "none" /\ AfterSize) =>
    IF threads = <<>>
    THEN width = 40 /\ height = 40
    ELSE /\ width >= 1 /\ height >= 1
         /\ AllSegments # {} =>
              /\ width = SetMax(XsOf(AllSegments)) + 1
              /\ height = SetMax(YsOf(AllSegments)) + 1

C1_Witness ==
  /\ pc = "done" /\ size.t = "none" /\ Len(threads) = 2
  /\ \E th \in Range(threads) : SkipGroup(th) /\ ~th.has_paths
  /\ \E th \in Range(threads) : ~SkipGroup(th) /\ th.has_paths /\ Len(th.paths) = 2
  /\ width = MaxCoord + 1 /\ height = MaxCoord + 1

\* ---------------------------------------------------------------- C7
\* C7: with an explicit size the grid is the square (size, size) whatever
\* the thread and skip coordinates are, also when they exceed size.
C7_ExplicitSquare ==
  (size.t = "int" /\ pc # "size") => (width = size.v /\ height = size.v)

C7_Witness ==
  /\ pc = "done" /\ size.t = "int"
  /\ \E p \in AllSegments : IntSegment(p) /\ GetEnd(p)[1].v > size.v
  /\ \E p \in SkipSegments : IntSegment(p) /\ GetEnd(p)[2].v > size.v
  /\ width = size.v /\ height = size.v

\* ---------------------------------------------------------------- C2
Clamp(v, lo, hi) == Max2(lo, Min2(hi, v))
EraseLog == OpsOfKind("erase")

\* The union bounding box of the skip segments int() accepts, as a pixel
\* rectangle on cell boundaries, before clamping.
BoxLeft == 20 + SetMin(XsOf(CoercibleSkipSegments)) * cell_size
BoxTop == 20 + SetMin(YsOf(CoercibleSkipSegments)) * cell_size
BoxRight == 20 + (SetMax(XsOf(CoercibleSkipSegments)) + 1) * cell_size
BoxBottom == 20 + (SetMax(YsOf(CoercibleSkipSegments)) + 1) * cell_size

ErasedIsClampedBox ==
  /\ Len(EraseLog) = 1
  /\ EraseLog[1].x1 = Clamp(BoxLeft, 0, img_width - 1)
  /\ EraseLog[1].y1 = Clamp(BoxTop, 0, img_height - 1)
  /\ EraseLog[1].x2 = Clamp(BoxRight, 0, img_width - 1)
  /\ EraseLog[1].y2 = Clamp(BoxBottom, 0, img_height - 1)
  /\ EraseLog[1].color = White

BoxMeetsCanvas ==
  /\ BoxLeft <= img_width - 1 /\ BoxRight >= 0
  /\ BoxTop <= img_height - 1 /\ BoxBottom >= 0

C10_AutoSizeContains ==
  (size.t = "none" /\ cell_size >= 1 /\ AfterErase) =>
    /\ SkipSegments # {} =>
         /\ Len(EraseLog) = 1
         /\ EraseLog[1].x1 = BoxLeft /\ EraseLog[1].x2 = BoxRight
         /\ EraseLog[1].y1 = BoxTop /\ EraseLog[1].y2 = BoxBottom
         /\ 20 <= BoxLeft /\ BoxLeft <= BoxRight /\ BoxRight <= 20 + width * cell_size
         /\ 20 <= BoxTop /\ BoxTop <= BoxBottom /\ BoxBottom <= 20 + height * cell_size
    /\ \A p \in AllSegments :
         \A c \in {<<GetStart(p)[1].v, width>>, <<GetEnd(p)[1].v, width>>,
                   <<GetStart(p)[2].v, height>>, <<GetEnd(p)[2].v, height>>} :
           /\ 2 * 20 <= 2 * (20 + c[1] * cell_size) + cell_size
           /\ 2 * (20 + c[1] * cell_size) + cell_size <= 2 * (20 + c[2] * cell_size)
    /\ \A k \in 1..Len(ops) :
         ops[k].kind = "thread" =>
           /\ 2 * 20 <= ops[k].x1 /\ ops[k].x1 <= 2 * (20 + width * cell_size)
           /\ 2 * 20 <= ops[k].x2 /\ ops[k].x2 <= 2 * (20 + width * cell_size)
           /\ 2 * 20 <= ops[k].y1 /\ ops[k].y1 <= 2 * (20 + height * cell_size)
           /\ 2 * 20 <= ops[k].y2 /\ ops[k].y2 <= 2 * (20 + height * cell_size)

C10_Witness ==
  /\ pc = "done" /\ size.t = "none" /\ Len(threads) = 2
  /\ Len(EraseLog) = 1 /\ EraseLog[1].x2 = 20 + width * cell_size
  /\ \E k \in 1..Len(ops) :
       ops[k].kind = "thread" /\ ops[k].x2 = 2 * (20 + width * cell_size) - cell_size

\* ---------------------------------------------------------------- C5
\* The lines the thread renderer owes, in configuration order, one per
\* path segment, between cell centres (half pixels), in the group's colour.
RECURSIVE LinesOwed(_)
LinesOwed(ths) ==
  IF ths = <<>> THEN <<>>
  ELSE LET th == Head(ths)
           segs == SegmentsOf(th)
           colour == IF th.has_color THEN th.color ELSE <<"b", "l", "a", "c", "k">>
       IN [k \in 1..Len(segs) |->
             [kind |-> "thread",
              x1 |-> 2 * (20 + GetStart(segs[k])[1].v * cell_size) + cell_size,
              y1 |-> 2 * (20 + GetStart(segs[k])[2].v * cell_size) + cell_size,
              x2 |-> 2 * (20 + GetEnd(segs[k])[1].v * cell_size) + cell_size,
              y2 |-> 2 * (20 + GetEnd(segs[k])[2].v * cell_size) + cell_size,
              color |-> colour]]
            \o LinesOwed(Tail(ths))

\* C5: with only non-skip threads and no explicit size, the image is
\* (W * cell_size + 1 + 40) by (H * cell_size + 1 + 40) pixels and the thread
\* renderer draws, in configuration order, exactly one line per path segment
\* between the cell centres of its start and end, in the group's colour
\* (black when the group has none).
C5_NonSkipRender ==
  (size.t = "none" /\ pc = "done" /\ \A th \in Range(threads) : ~SkipGroup(th)) =>
    /\ img_width = width * cell_size + 1 + 40
    /\ img_height = height * cell_size + 1 + 40
    /\ OpsOfKind("thread") = LinesOwed(threads)

\* The worked example: one red segment (0,1)-(1,0), cell size 20, gives the
\* grid (2, 2), an 81 x 81 image and one red line from (30, 50) to (50, 30).
C5_Witness ==
  /\ pc = "done" /\ size.t = "none" /\ cell_size = 20
  /\ threads = <<NewThread(TRUE, Red, <<Path(Pt(0, 1), Pt(1, 0))>>)>>
  /\ width = 2 /\ height = 2 /\ img_width = 81 /\ img_height = 81
  /\ OpsOfKind("thread") = <<Op("thread", 2 * 30, 2 * 50, 2 * 50, 2 * 30, Red)>>

\* ---------------------------------------------------------------- C3
RECURSIVE NonSkipSegmentCount(_)
NonSkipSegmentCount(ths) ==
  IF ths = <<>> THEN 0
  ELSE (IF SkipGroup(Head(ths)) THEN 0 ELSE Len(SegmentsOf(Head(ths))))
         + NonSkipSegmentCount(Tail(ths))

\* C3: a group whose colour is "skip" in any letter case, with or without
\* surrounding white space, in either form, gets no line: every line drawn
\* carries a colour that is not the skip marker, and a finished render has
\* drawn exactly the segments of the other groups.
C3_SkipNeverDrawn ==
  /\ \A k \in 1..Len(ops) : ops[k].kind = "thread" => ~SkipSpelled(ops[k].color)
  /\ pc = "done" => Len(OpsOfKind("thread")) = NonSkipSegmentCount(threads)

C3_Witness ==
  /\ pc = "done"
  /\ \E th \in Range(threads) :
       th.has_color /\ th.color = <<" ", "S", "k", "i", "p", " ">> /\ ~th.has_paths
  /\ Len(OpsOfKind("thread")) = 1
  /\ Len(threads) = 2

\* ---------------------------------------------------------------- C6
\* The effective spacing: the supplied one, or 1 when it is not a number
\* or is below 1.
EffectiveSpacing ==
  IF french_knot_spacing.t = "int" /\ french_knot_spacing.v >= 1
  THEN french_knot_spacing.v ELSE 1

OnLattice(i, limit) ==
  LET s == EffectiveSpacing
      step == IF 2 * s - 2 >= 1 THEN 2 * s - 2 ELSE 1
      start == IF s - 1 >= 0 THEN s - 1 ELSE 0
  IN i < limit /\ \E n \in 0..limit : i = start + n * step

KnotCells == {c \in (0..(width - 1)) \X (0..(height - 1)) :
                OnLattice(c[1], width) /\ OnLattice(c[2], height)}
KnotLog == OpsOfKind("knot")

\* The centres the knots in a draw log are drawn around (half pixels).
CentresOf(log) ==
  {<<(log[k].x1 + log[k].x2) \div 2, (log[k].y1 + log[k].y2) \div 2>> :
     k \in 1..Len(log)}

\* C6: with a knot colour and effective spacing s, a knot is drawn at cell
\* (i, j) exactly when i is one of start, start + step, ... below width and j
\* one of them below height, step = max(1, 2s - 2), start = max(0, s - 1), one
\* knot per such cell (every cell when s = 1); with no knot colour no knot is
\* drawn.
C6_KnotLattice ==
  AfterKnots =>
    LET log == KnotLog
        cells == KnotCells
    IN IF french_knots_color = <<>>
       THEN Len(log) = 0
       ELSE /\ Len(log) = Cardinality(cells)
            /\ CentresOf(log) =
                 {<<2 * (20 + c[1] * cell_size) + cell_size,
                    2 * (20 + c[2] * cell_size) + cell_size>> : c \in cells}
            /\ EffectiveSpacing = 1 => Len(log) = width * height

C6_Witness ==
  /\ pc = "done" /\ french_knots_color # <<>>
  /\ french_knot_spacing = PyI(MaxSpacing) /\ width = 2 * MaxSpacing + 1
  /\ Len(KnotLog) = 4

C6_WitnessInvalidSpacing ==
  /\ pc = "done" /\ french_knots_color # <<>>
  /\ french_knot_spacing.t = "str" /\ width = 40 /\ Len(KnotLog) = 1600

\* ---------------------------------------------------------------- C9
StageOf(kind) ==
  CASE kind \in {"gridline", "dot"} -> 1
    [] kind = "knot" -> 2
    [] kind = "erase" -> 3
    [] kind = "thread" -> 4
    [] kind = "outline" -> 5

\* C9: the draw calls come in the fixed order grid lines and dots, knots,
\* the single erase, thread lines, the outline; the outline is drawn only
\* with the debug flag set and an erase performed, and then always; so after
\* the erase only thread lines and the outline are painted.
C9_StageOrder ==
  /\ \A k \in 1..(Len(ops) - 1) : StageOf(ops[k].kind) <= StageOf(ops[k + 1].kind)
  /\ Len(EraseLog) <= 1
  /\ Len(OpsOfKind("outline")) <= 1
  /\ Len(OpsOfKind("outline")) = 1 =>
       LET erased == EraseLog
           last == ops[Len(ops)]
       IN /\ debug_overlay /\ Len(erased) = 1
          /\ last.kind = "outline"
          /\ last.x1 = erased[1].x1 /\ last.y1 = erased[1].y1
          /\ last.x2 = erased[1].x2 /\ last.y2 = erased[1].y2
  /\ (pc = "done" /\ debug_overlay /\ Len(EraseLog) = 1) => Len(OpsOfKind("outline")) = 1
  /\ pc \in {"scan", "erase", "threads", "save", "done"} =>
       /\ Len(OpsOfKind("gridline")) = (width + 1) + (height + 1)
       /\ Len(OpsOfKind("dot")) = (width + 1) * (height + 1)

C9_Witness ==
  /\ pc = "done" /\ debug_overlay
  /\ Len(KnotLog) > 0 /\ Len(EraseLog) = 1
  /\ Len(OpsOfKind("thread")) > 0 /\ Len(OpsOfKind("outline")) = 1

\* ---------------------------------------------------------------- C8
\* C8: a skip segment, in either form, whose coordinates int() rejects is
\* left out of the bounding box and the render still completes: nothing is
\* raised, and the other skip segments are erased as usual.
C8_BadSkipTolerated ==
  (\E p \in SkipSegments : ~IntSegment(p)) =>
    /\ pc # "raised"
    /\ (pc = "done" /\ CoercibleSkipSegments # {} /\ BoxMeetsCanvas) => ErasedIsClampedBox

\* ---------------------------------------------------------------- C4
\* The same entry in the other form: {color, start, end} as
\* {color, paths: [{start, end}]} and back.
OtherForm(th) ==
  IF th.has_paths THEN OldThread(th.has_color, th.color, th.paths[1])
  ELSE NewThread(th.has_color, th.color, <<th.own>>)

HasOtherForm(th) == ~th.has_paths \/ Len(th.paths) = 1

\* C4: replacing a legacy entry by its paths-list entry, or the reverse,
\* leaves the whole render unchanged: grid size, skip rectangle, draw calls,
\* and whether the render completes.
C4_FormsEquivalent ==
  Terminal =>
    \A i \in 1..Len(threads) :
      HasOtherForm(threads[i]) =>
        RenderOutcome([threads EXCEPT ![i] = OtherForm(threads[i])], size, cell_size,
                      debug_overlay, french_knots_color, french_knot_spacing) = Outcome

\* The same for thread lists all of whose coordinates are integers.
FormsEquivalentOnIntegers ==
  (\A p \in AllSegments : IntSegment(p)) => C4_FormsEquivalent

====
